---- MODULE Spec2Model ----
(***************************************************************************)
(* Model of ctrliq/gobuild: the once-only git describer (git.go), the      *)
(* semantic-version synthesizer, the tree lister and the tar/zip archive   *)
(* builder.  Strings are sequences of one-character strings so that        *)
(* slicing, parsing, formatting and byte-wise comparison are computed.     *)
(***************************************************************************)
EXTENDS Integers, Sequences, FiniteSets, TLC

VARIABLES
    \* ---- Describer (git.go:18-50) ----
    pc,                         \* per caller: position inside GitDescribe / sync.Once
    ncalls,                     \* per caller: completed GitDescribe calls
    onceDone,                   \* onceGitDescribe.done
    onceM,                      \* onceGitDescribe.m holder (0 = unlocked)
    cachedGitDescription,       \* package variable, git.go:19
    cachedGitDescriptionError,  \* package variable, git.go:20
    nComputed,                  \* how many times the once-function body was entered
    returned,                   \* every (description, error) pair a call has returned
    \* ---- Tag selector and history walker (git.go:108-183) ----
    repo,                       \* the repository on disk: tag references and commit log
    tagsRes,                    \* result of getVersionTags
    gdRes,                      \* result of describe
    \* ---- Semver synthesizer (git.go:52-80) ----
    svTag,                      \* gd.tag of the description GetSemver is called on
    svOut,                      \* distance -> result of GetSemver at that distance
    \* ---- Tree lister (git.go:82-106) ----
    lsIn,                       \* the description's tag, its tree, and the walker fault
    lsOut,                      \* result of ListEntries
    \* ---- Archive builder (archive) ----
    fs,                         \* the live filesystem: path -> node
    ga,                         \* result of NewGitArchive
    arPc,                       \* position inside GitArchive.Create
    arFormat,                   \* format argument of Create
    arTodo,                     \* entries still to add
    arErr,                      \* error Create is returning
    writers,                    \* state of gzipWriter, tarWriter, zipWriter
    closeLog,                   \* order in which writers were closed
    sink                        \* archive entries written so far

onceVars    == <<pc, ncalls, onceDone, onceM, cachedGitDescription,
                 cachedGitDescriptionError, nComputed, returned>>
repoVars    == <<repo, tagsRes, gdRes>>
semverVars  == <<svTag, svOut>>
listVars    == <<lsIn, lsOut>>
archiveVars == <<fs, ga, arPc, arFormat, arTodo, arErr, writers, closeLog, sink>>
vars        == <<onceVars, repoVars, semverVars, listVars, archiveVars>>

-----------------------------------------------------------------------------
(* Bounds of the model. *)
NumProcs    == 2    \* concurrent callers of GitDescribe
MaxCalls    == 2    \* calls per caller
NumCommits  == 3    \* commits in the repository
MaxRefs     == 2    \* tag references in the repository
MaxDist     == 11   \* largest distance GetSemver is applied to
MaxBuilds   == 2    \* builds of one tag whose versions are compared
MaxDirFiles == 2    \* files inside the directory of a tag's tree

-----------------------------------------------------------------------------
(* Strings: sequences of characters, ordered by byte value. *)

\* the bytes the model's strings use, in increasing byte order
Alphabet ==
    <<"+", "-", ".", "0", "1", "2", "3", "4", "5", "6", "7", "8", "9",
      "a", "b", "c", "d", "e", "f", "g", "h", "i", "j", "k", "l", "m",
      "n", "o", "p", "q", "r", "s", "t", "u", "v", "w", "x", "y", "z">>

\* the rank of every byte of the alphabet
OrdTable ==
    [c \in {Alphabet[i] : i \in 1..Len(Alphabet)} |->
        CHOOSE i \in 1..Len(Alphabet) : Alphabet[i] = c]

Ord(c) == OrdTable[c]

Numbers == {"0", "1", "2", "3", "4", "5", "6", "7", "8", "9"}

\* blang/semver: alphanum = letters, digits and '-'
AlphaNum == {Alphabet[i] : i \in 1..Len(Alphabet)} \ {"+", "."}

\* Go slice s[i:] with 0-based i, for i <= len(s)
SliceFrom(s, i) == SubSeq(s, i + 1, Len(s))

\* Go slice s[:i] with 0-based i
SliceTo(s, i) == SubSeq(s, 1, i)

\* strings.IndexRune: 0-based index of the first c in s, or -1
IndexRune(s, c) ==
    LET at == {i \in 1..Len(s) : s[i] = c}
    IN  IF at = {} THEN -1
        ELSE (CHOOSE i \in at : \A j \in at : i <= j) - 1

RECURSIVE Split(_, _)
\* strings.Split(s, sep) for a one-byte separator
Split(s, sep) ==
    LET i == IndexRune(s, sep)
    IN  IF i = -1 THEN <<s>>
        ELSE <<SliceTo(s, i)>> \o Split(SliceFrom(s, i + 1), sep)

RECURSIVE SplitN(_, _, _)
\* strings.SplitN(s, sep, n) for n >= 1
SplitN(s, sep, n) ==
    LET i == IndexRune(s, sep)
    IN  IF n = 1 \/ i = -1 THEN <<s>>
        ELSE <<SliceTo(s, i)>> \o SplitN(SliceFrom(s, i + 1), sep, n - 1)

containsOnly(s, set) == \A i \in 1..Len(s) : s[i] \in set

hasLeadingZeroes(s) == Len(s) > 1 /\ s[1] = "0"

RECURSIVE ParseUint(_)
\* strconv.ParseUint(s, 10, 64) on a non-empty string of digits
ParseUint(s) ==
    IF s = <<>> THEN 0
    ELSE ParseUint(SliceTo(s, Len(s) - 1)) * 10 + (Ord(s[Len(s)]) - Ord("0"))

RECURSIVE FormatUint(_)
\* the %d verb of fmt.Sprintf on an unsigned integer
FormatUint(n) ==
    IF n < 10 THEN <<Alphabet[Ord("0") + n]>>
    ELSE FormatUint(n \div 10) \o <<Alphabet[Ord("0") + (n % 10)]>>

RECURSIVE StrCmp(_, _)
\* Go's string comparison: byte-wise lexicographic; -1, 0 or 1
StrCmp(a, b) ==
    IF a = <<>> /\ b = <<>> THEN 0
    ELSE IF a = <<>> THEN -1
    ELSE IF b = <<>> THEN 1
    ELSE IF Ord(a[1]) < Ord(b[1]) THEN -1
    ELSE IF Ord(a[1]) > Ord(b[1]) THEN 1
    ELSE StrCmp(Tail(a), Tail(b))

-----------------------------------------------------------------------------
(* Tag and reference names used as inputs. *)

\* "v1.2.3"
N_v123 == <<"v", "1", ".", "2", ".", "3">>

\* "v0.1.9"
N_v019 == <<"v", "0", ".", "1", ".", "9">>

\* "v1.0.0-alpha.1"
N_alpha == <<"v", "1", ".", "0", ".", "0", "-", "a", "l", "p", "h", "a", ".", "1">>

\* "v0.9.0-1"
N_num == <<"v", "0", ".", "9", ".", "0", "-", "1">>

\* "v1.2.3+b7"
N_build == <<"v", "1", ".", "2", ".", "3", "+", "b", "7">>

\* "x2.0.0"
N_x == <<"x", "2", ".", "0", ".", "0">>

\* "not-a-version"
N_nota == <<"n", "o", "t", "-", "a", "-", "v", "e", "r", "s", "i", "o", "n">>

\* "v"
N_v == <<"v">>

\* "1.2.3"
N_bare == <<"1", ".", "2", ".", "3">>

\* "v1.2"
N_short == <<"v", "1", ".", "2">>

\* "v01.2.3"
N_lead == <<"v", "0", "1", ".", "2", ".", "3">>

\* names a tag reference may carry
AllNames == {N_v123, N_v019, N_alpha, N_num, N_build, N_x, N_nota, N_v, N_bare, N_short, N_lead}

-----------------------------------------------------------------------------
(* github.com/blang/semver as used by git.go. *)

ZeroPR == [VersionStr |-> <<>>, VersionNum |-> 0, IsNum |-> FALSE]

\* semver.Version{}
ZeroVersion == [Major |-> 0, Minor |-> 0, Patch |-> 0, Pre |-> <<>>, Build |-> <<>>]

\* the composite literal semver.PRVersion{VersionStr: s} (git.go:70, git.go:76)
PRVersionLit(s) == [VersionStr |-> s, VersionNum |-> 0, IsNum |-> FALSE]

\* semver.NewPRVersion
NewPRVersion(s) ==
    IF Len(s) = 0 THEN [ok |-> FALSE, pr |-> ZeroPR]
    ELSE IF ~containsOnly(s, AlphaNum) THEN [ok |-> FALSE, pr |-> ZeroPR]
    ELSE IF containsOnly(s, Numbers)
         THEN IF hasLeadingZeroes(s) THEN [ok |-> FALSE, pr |-> ZeroPR]
              ELSE [ok |-> TRUE,
                    pr |-> [VersionStr |-> <<>>, VersionNum |-> ParseUint(s), IsNum |-> TRUE]]
    ELSE [ok |-> TRUE, pr |-> [VersionStr |-> s, VersionNum |-> 0, IsNum |-> FALSE]]

\* a numeric field of Major.Minor.Patch is acceptable
NumericOk(s) == Len(s) > 0 /\ containsOnly(s, Numbers) /\ ~hasLeadingZeroes(s)

\* semver.Parse
Parse(s) ==
    LET parts      == SplitN(s, ".", 3)
        raw        == parts[3]
        buildIndex == IndexRune(raw, "+")
        build      == IF buildIndex # -1
                      THEN Split(SliceFrom(raw, buildIndex + 1), ".") ELSE <<>>
        noBuild    == IF buildIndex # -1 THEN SliceTo(raw, buildIndex) ELSE raw
        preIndex   == IndexRune(noBuild, "-")
        prerelease == IF preIndex # -1
                      THEN Split(SliceFrom(noBuild, preIndex + 1), ".") ELSE <<>>
        patchStr   == IF preIndex # -1 THEN SliceTo(noBuild, preIndex) ELSE noBuild
        fail       == [ok |-> FALSE, v |-> ZeroVersion]
    IN  IF Len(s) = 0 \/ Len(parts) # 3 THEN fail
        ELSE IF ~NumericOk(parts[1]) \/ ~NumericOk(parts[2]) \/ ~NumericOk(patchStr) THEN fail
        ELSE IF \E i \in 1..Len(prerelease) : ~NewPRVersion(prerelease[i]).ok THEN fail
        ELSE IF \E i \in 1..Len(build) :
                    Len(build[i]) = 0 \/ ~containsOnly(build[i], AlphaNum) THEN fail
        ELSE [ok |-> TRUE,
              v  |-> [Major |-> ParseUint(parts[1]),
                      Minor |-> ParseUint(parts[2]),
                      Patch |-> ParseUint(patchStr),
                      Pre   |-> [i \in 1..Len(prerelease) |-> NewPRVersion(prerelease[i]).pr],
                      Build |-> build]]

\* PRVersion.Compare
PRCompare(v, o) ==
    IF v.IsNum /\ ~o.IsNum THEN -1
    ELSE IF ~v.IsNum /\ o.IsNum THEN 1
    ELSE IF v.IsNum /\ o.IsNum
         THEN IF v.VersionNum = o.VersionNum THEN 0
              ELSE IF v.VersionNum > o.VersionNum THEN 1 ELSE -1
    ELSE StrCmp(v.VersionStr, o.VersionStr)

RECURSIVE PreCompare(_, _, _)
\* the loop of Version.Compare over the pre-release components, from index i
PreCompare(vp, op, i) ==
    IF i <= Len(vp) /\ i <= Len(op)
    THEN LET comp == PRCompare(vp[i], op[i])
         IN  IF comp = 0 THEN PreCompare(vp, op, i + 1) ELSE comp
    ELSE IF i > Len(vp) /\ i > Len(op) THEN 0
    ELSE IF i > Len(vp) THEN -1
    ELSE 1

\* Version.Compare: semantic-version precedence as the library computes it
Compare(v, o) ==
    IF v.Major # o.Major THEN (IF v.Major > o.Major THEN 1 ELSE -1)
    ELSE IF v.Minor # o.Minor THEN (IF v.Minor > o.Minor THEN 1 ELSE -1)
    ELSE IF v.Patch # o.Patch THEN (IF v.Patch > o.Patch THEN 1 ELSE -1)
    ELSE IF Len(v.Pre) = 0 /\ Len(o.Pre) = 0 THEN 0
    ELSE IF Len(v.Pre) = 0 THEN 1
    ELSE IF Len(o.Pre) = 0 THEN -1
    ELSE PreCompare(v.Pre, o.Pre, 1)

RECURSIVE JoinDots(_)
\* strings.Join(parts, ".")
JoinDots(parts) ==
    IF parts = <<>> THEN <<>>
    ELSE IF Len(parts) = 1 THEN parts[1]
    ELSE parts[1] \o <<".">> \o JoinDots(Tail(parts))

\* PRVersion.String
PRString(pr) == IF pr.IsNum THEN FormatUint(pr.VersionNum) ELSE pr.VersionStr

\* Version.String
VersionString(v) ==
    FormatUint(v.Major) \o <<".">> \o FormatUint(v.Minor) \o <<".">> \o FormatUint(v.Patch)
    \o (IF Len(v.Pre) > 0
        THEN <<"-">> \o JoinDots([i \in 1..Len(v.Pre) |-> PRString(v.Pre[i])])
        ELSE <<>>)
    \o (IF Len(v.Build) > 0 THEN <<"+">> \o JoinDots(v.Build) ELSE <<>>)

-----------------------------------------------------------------------------
(* Descriptions. *)

\* a nil *object.Tag
NilTag == [present |-> FALSE, Name |-> <<>>, Target |-> 0]

\* a nil *GitDescription
NilGd == [present |-> FALSE, isClean |-> FALSE, tag |-> NilTag, n |-> 0]

\* the names the tag selector accepts: the name minus its first byte parses
SemverNames == {nm \in AllNames : Len(nm) > 0 /\ Parse(SliceFrom(nm, 1)).ok}

-----------------------------------------------------------------------------
(* Semver synthesizer: GitDescription.GetSemver, git.go:52-80. *)

\* "alpha." and "devel.", the literal parts of the two Sprintf formats
AlphaDot == <<"a", "l", "p", "h", "a", ".">>

DevelDot == <<"d", "e", "v", "e", "l", ".">>

\* faulty variant of GetSemver: the patch bump is left out
GetSemverNoBump(gd) ==
    IF ~gd.tag.present THEN [err |-> "no semver tags found", v |-> ZeroVersion]
    ELSE LET p == Parse(SliceFrom(gd.tag.Name, 1))
         IN  IF ~p.ok THEN [err |-> "parse", v |-> ZeroVersion]
             ELSE IF gd.n > 0
                  THEN LET v1 == IF Len(p.v.Pre) = 0
                                 THEN [p.v EXCEPT !.Pre =
                                         <<PRVersionLit(AlphaDot \o FormatUint(p.v.Patch))>>]
                                 ELSE p.v
                       IN  [err |-> "",
                            v   |-> [v1 EXCEPT !.Pre =
                                       Append(@, PRVersionLit(DevelDot \o FormatUint(gd.n)))]]
             ELSE [err |-> "", v |-> p.v]

GetSemver(gd) ==
    IF ~gd.tag.present THEN [err |-> "no semver tags found", v |-> ZeroVersion]
    ELSE LET p == Parse(SliceFrom(gd.tag.Name, 1))
         IN  IF ~p.ok THEN [err |-> "parse", v |-> ZeroVersion]
             ELSE IF gd.n > 0
                  THEN LET v1 == IF Len(p.v.Pre) = 0
                                 THEN [p.v EXCEPT
                                         !.Patch = p.v.Patch + 1,
                                         !.Pre = Append(p.v.Pre,
                                           PRVersionLit(AlphaDot \o FormatUint(p.v.Patch + 1)))]
                                 ELSE p.v
                       IN  [err |-> "",
                            v   |-> [v1 EXCEPT !.Pre =
                                       Append(@, PRVersionLit(DevelDot \o FormatUint(gd.n)))]]
             ELSE [err |-> "", v |-> p.v]

-----------------------------------------------------------------------------
(* The repository, the tag selector and the history walker, git.go:108-183. *)

\* commit hashes; the commit log from HEAD visits 1, 2, ... in this order
Commits == 1..NumCommits

\* reference names the modelled repositories draw from
RefNames == {N_v123, N_alpha, N_nota, N_v}

\* a reference under refs/tags: obj = "tag" when its hash names an annotated tag
\* object (whose Target is target), obj = "commit" for a lightweight tag, whose
\* hash is the commit itself; the code never reads which commit that is, so
\* lightweight tags are all put on commit 1
Refs ==
    [name : RefNames, obj : {"tag"}, target : Commits]
    \cup [name : RefNames, obj : {"commit"}, target : {1}]

\* the references of a repository in the order r.Tags() iterates them
RefSeqs ==
    UNION {{q \in [1..k -> Refs] :
               \A i, j \in 1..k : i # j => q[i].name # q[j].name} : k \in 0..MaxRefs}

\* steps of describe at which the repository can fail to answer
Faults == {"none", "worktree", "status", "tags", "log"}

Repos == [refs : RefSeqs, log : {[i \in 1..k |-> i] : k \in Commits}]

\* r.TagObject(ref.Hash()): plumbing.ErrObjectNotFound unless the hash is a tag object
TagObject(ref) ==
    IF ref.obj = "tag"
    THEN [ok |-> TRUE, t |-> [present |-> TRUE, Name |-> ref.name, Target |-> ref.target]]
    ELSE [ok |-> FALSE, t |-> NilTag]

\* make(map[plumbing.Hash]*object.Tag)
EmptyTags == [c \in Commits |-> NilTag]

\* the keys of a tag mapping
Keys(tags) == {c \in Commits : tags[c].present}

RECURSIVE TagsForEach(_, _, _)
\* tagIter.ForEach with the callback of git.go:119-132, from reference i on
TagsForEach(refs, i, tags) ==
    IF i > Len(refs) THEN [tags |-> tags, err |-> ""]
    ELSE LET ref  == refs[i]
             name == ref.name
         IN  IF Len(name) = 0 THEN TagsForEach(refs, i + 1, tags)
             ELSE IF Parse(SliceFrom(name, 1)).ok
                  THEN LET o == TagObject(ref)
                       IN  IF ~o.ok THEN [tags |-> tags, err |-> "object not found"]
                           ELSE TagsForEach(refs, i + 1, [tags EXCEPT ![o.t.Target] = o.t])
             ELSE TagsForEach(refs, i + 1, tags)

\* getVersionTags
getVersionTags(r, fault) ==
    IF fault = "tags" THEN [tags |-> EmptyTags, err |-> "tags"]
    ELSE TagsForEach(r.refs, 1, EmptyTags)

RECURSIVE LogForEachIncFirst(_, _, _, _)
\* faulty variant of the walk: the counter is incremented before the tag check
LogForEachIncFirst(log, i, tags, gd) ==
    IF i > Len(log) THEN [gd |-> gd, err |-> ""]
    ELSE IF tags[log[i]].present
         THEN [gd |-> [gd EXCEPT !.tag = tags[log[i]], !.n = gd.n + 1], err |-> ""]
    ELSE LogForEachIncFirst(log, i + 1, tags, [gd EXCEPT !.n = gd.n + 1])

RECURSIVE LogForEach(_, _, _, _)
\* logIter.ForEach with the callback of git.go:170-177, from commit i of the log on
LogForEach(log, i, tags, gd) ==
    IF i > Len(log) THEN [gd |-> gd, err |-> ""]
    ELSE IF tags[log[i]].present
         THEN [gd |-> [gd EXCEPT !.tag = tags[log[i]]], err |-> ""]
    ELSE LogForEach(log, i + 1, tags, [gd EXCEPT !.n = gd.n + 1])

\* describe; clean is what status.IsClean() answers
describe(r, clean, fault) ==
    IF fault = "worktree" THEN [gd |-> NilGd, err |-> "worktree"]
    ELSE IF fault = "status" THEN [gd |-> NilGd, err |-> "worktree status"]
    ELSE LET vt == getVersionTags(r, fault)
         IN  IF vt.err # "" THEN [gd |-> NilGd, err |-> "version tag"]
             ELSE IF fault = "log" THEN [gd |-> NilGd, err |-> "log"]
             ELSE LET res == LogForEach(r.log, 1, vt.tags,
                               [present |-> TRUE, isClean |-> clean, tag |-> NilTag, n |-> 0])
                  IN  IF res.err # "" THEN [gd |-> NilGd, err |-> res.err] ELSE res

\* every (description, error) describe can produce
DescribeOutcomes == {describe(r, c, f) : r \in Repos, c \in BOOLEAN, f \in Faults}

\* a result not yet produced
NoRes == [done |-> FALSE, fault |-> "none", tags |-> EmptyTags, gd |-> NilGd, err |-> ""]

-----------------------------------------------------------------------------
(* Tree lister: GitDescription.ListEntries, git.go:82-106. *)

\* paths are sequences of components: <<"dir", "b.txt">> is dir/b.txt
DirFileNames == <<"b.txt", "c.txt", "d.txt", "e.txt">>

\* a tree entry: a blob, or a subtree holding blobs
Blob(name) == [name |-> name, isDir |-> FALSE, files |-> <<>>]

SubTree(name, k) == [name |-> name, isDir |-> TRUE, files |-> SubSeq(DirFileNames, 1, k)]

\* the trees a tag can point at, entries in git's name order
Trees ==
    {a \o d \o l :
        a \in {<<>>, <<Blob("a.txt")>>},
        d \in {<<>>} \cup {<<SubTree("dir", k)>> : k \in 1..MaxDirFiles},
        l \in {<<>>, <<Blob("link")>>}}

RECURSIVE TreeWalk(_)
\* the names object.NewTreeWalker(tree, true, nil) yields: depth first, a
\* directory before its contents
TreeWalk(tree) ==
    IF tree = <<>> THEN <<>>
    ELSE LET e == Head(tree)
         IN  <<<<e.name>>>> \o [i \in 1..Len(e.files) |-> <<e.name, e.files[i]>>]
             \o TreeWalk(Tail(tree))

RECURSIVE ListLoop(_, _, _, _)
\* the loop of git.go:96-103: call i of tw.Next() fails when i = failAt, and
\* returns io.EOF after the last name; every error ends the loop
ListLoop(names, i, failAt, entries) ==
    IF i = failAt \/ i > Len(names) THEN entries
    ELSE ListLoop(names, i + 1, failAt, Append(entries, names[i]))

\* ListEntries on a description whose tag points at tree; treeOk is whether
\* gd.tag.Tree() succeeds; failAt = 0 when the walker never fails
ListEntries(tag, treeOk, tree, failAt) ==
    IF ~tag.present THEN <<>>
    ELSE IF ~treeOk THEN <<>>
    ELSE ListLoop(TreeWalk(tree), 1, failAt, <<>>)

-----------------------------------------------------------------------------
(* The live filesystem read by the archive builder. *)

P_a == <<"a.txt">>

P_dir == <<"dir">>

P_b == <<"dir", "b.txt">>

P_link == <<"link">>

P_extra == <<"extra.bin">>

P_gone == <<"gone">>

FsPaths == {P_a, P_dir, P_b, P_link, P_extra, P_gone}

Absent == [kind |-> "absent", data |-> <<>>]

\* a regular file with the given content
Regular(data) == [kind |-> "regular", data |-> data]

Directory == [kind |-> "dir", data |-> <<>>]

\* a symbolic link whose target is the given path
Symlink(target) == [kind |-> "symlink", data |-> target]

\* working directories: a.txt, dir/ and dir/b.txt are checked out; link is a
\* symlink to a.txt, a dangling symlink, or a plain file; extra.bin may exist
FileSystems ==
    {[q \in FsPaths |->
        CASE q = P_a     -> Regular(<<"A">>)
          [] q = P_dir   -> Directory
          [] q = P_b     -> Regular(<<"B", "B">>)
          [] q = P_link  -> l
          [] q = P_extra -> x
          [] OTHER       -> Absent] :
        l \in {Symlink(P_a), Symlink(P_gone), Regular(<<"L">>)},
        x \in {Absent, Regular(<<"X">>)}}

\* os.Lstat: the node at the path itself
Lstat(f, path) == IF path \in DOMAIN f THEN f[path] ELSE Absent

\* os.Stat: the node after following symbolic links (links here are one deep)
Stat(f, path) ==
    LET nd == Lstat(f, path)
    IN  IF nd.kind = "symlink"
        THEN LET t == Lstat(f, nd.data)
             IN  IF t.kind = "symlink" THEN Absent ELSE t
        ELSE nd

\* os.Readlink
Readlink(f, path) ==
    LET nd == Lstat(f, path)
    IN  IF nd.kind = "symlink" THEN [ok |-> TRUE, target |-> nd.data]
        ELSE [ok |-> FALSE, target |-> <<>>]

\* filepath.Join(prefix, path), then "/" appended for a directory (a trailing
\* empty component)
EntryName(prefix, path, isDir) ==
    prefix \o path \o (IF isDir THEN <<"">> ELSE <<>>)

NoErr == [msg |-> "", arg |-> <<>>]

NoEntry == [Name |-> <<>>, Type |-> "", Linkname |-> <<>>, Body |-> <<>>]

-----------------------------------------------------------------------------
(* Archive builder: NewGitArchive, Create, addEntryToTar, addEntryToZip. *)

Failed(msg, arg) == [err |-> [msg |-> msg, arg |-> arg], entry |-> NoEntry]

\* addEntryToTar; wok is whether the sink accepts the header
addEntryToTar(prefix, path, f, wok) ==
    LET fi     == Stat(f, path)
        isLink == fi.kind = "symlink"
        rl     == Readlink(f, path)
        link   == IF isLink THEN rl.target ELSE <<>>
    IN  IF fi.kind = "absent" THEN Failed("while getting information for file", path)
        ELSE IF isLink /\ ~rl.ok THEN Failed("while reading symlink", path)
        ELSE IF ~wok THEN Failed("while writing tar header for file", path)
        ELSE [err   |-> NoErr,
              entry |-> [Name     |-> EntryName(prefix, path, fi.kind = "dir"),
                         Type     |-> fi.kind,
                         Linkname |-> link,
                         Body     |-> IF fi.kind = "regular" THEN fi.data ELSE <<>>]]

\* addEntryToZip; wok is whether the sink accepts the header
addEntryToZip(prefix, path, f, wok) ==
    LET fi     == Stat(f, path)
        isLink == fi.kind = "symlink"
        rl     == Readlink(f, path)
    IN  IF fi.kind = "absent" THEN Failed("while getting information for file", path)
        ELSE IF ~wok THEN Failed("while create zip file", path)
        ELSE IF fi.kind # "regular" /\ isLink /\ ~rl.ok
             THEN Failed("while reading symlink", path)
        ELSE [err   |-> NoErr,
              entry |-> [Name     |-> EntryName(prefix, path, fi.kind = "dir"),
                         Type     |-> fi.kind,
                         Linkname |-> <<>>,
                         Body     |-> IF fi.kind = "regular" THEN fi.data
                                      ELSE IF isLink THEN rl.target ELSE <<>>]]

NilGa == [called |-> FALSE, present |-> FALSE, gd |-> NilGd, prefix |-> <<>>, err |-> NoErr]

\* faulty variant of NewGitArchive: the distance check is left out
NewGitArchiveAnyDistance(prefix, gd, err) ==
    IF err # "" THEN [NilGa EXCEPT !.called = TRUE, !.err = [msg |-> err, arg |-> <<>>]]
    ELSE IF ~gd.tag.present
         THEN [NilGa EXCEPT !.called = TRUE,
                 !.err = [msg |-> "no tag found to create archive from", arg |-> <<>>]]
    ELSE [called |-> TRUE, present |-> TRUE, gd |-> gd, prefix |-> prefix, err |-> NoErr]

\* NewGitArchive, given the pair GitDescribe returned
NewGitArchive(prefix, gd, err) ==
    IF err # "" THEN [NilGa EXCEPT !.called = TRUE, !.err = [msg |-> err, arg |-> <<>>]]
    ELSE IF ~gd.tag.present
         THEN [NilGa EXCEPT !.called = TRUE,
                 !.err = [msg |-> "no tag found to create archive from", arg |-> <<>>]]
    ELSE IF gd.n > 0
         THEN [NilGa EXCEPT !.called = TRUE,
                 !.err = [msg |-> "tag %s must also be HEAD", arg |-> gd.tag.Name]]
    ELSE [called |-> TRUE, present |-> TRUE, gd |-> gd, prefix |-> prefix, err |-> NoErr]

\* no writer constructed yet
NoWriters == [gzip |-> "none", tar |-> "none", zip |-> "none"]

-----------------------------------------------------------------------------
(* State of each component before it is used. *)

Procs == 1..NumProcs

OnceIdle ==
    /\ pc = [p \in Procs |-> "idle"]
    /\ ncalls = [p \in Procs |-> 0]
    /\ onceDone = FALSE
    /\ onceM = 0
    /\ cachedGitDescription = NilGd
    /\ cachedGitDescriptionError = ""
    /\ nComputed = 0
    /\ returned = {}

RepoIdle ==
    /\ repo = [refs |-> <<>>, log |-> <<1>>]
    /\ tagsRes = NoRes
    /\ gdRes = NoRes

SemverIdle ==
    /\ svTag = NilTag
    /\ svOut = {}

ListIdle ==
    /\ lsIn = [tag |-> NilTag, treeOk |-> TRUE, tree |-> <<>>]
    /\ lsOut = [done |-> FALSE, failAt |-> 0, entries |-> <<>>]

ArchiveIdle ==
    /\ fs = [q \in FsPaths |-> Absent]
    /\ ga = NilGa
    /\ arPc = "idle"
    /\ arFormat = "none"
    /\ arTodo = <<>>
    /\ arErr = NoErr
    /\ writers = NoWriters
    /\ closeLog = <<>>
    /\ sink = <<>>

-----------------------------------------------------------------------------
(* Describer: GitDescribe under sync.Once, git.go:29-50. *)

\* the Describer's steps touch no other component
OnceOnly == UNCHANGED <<repoVars, semverVars, listVars, archiveVars>>

\* faulty variant of Once.doSlow: done is not read again under the mutex
OnceShouldRunUnchecked(done) == TRUE

\* Once.doSlow: with the mutex held, the function runs only if done is still 0
OnceShouldRun(done) == ~done

\* the pair GitDescribe returns, git.go:49
GitDescribeResult == [gd |-> cachedGitDescription, err |-> cachedGitDescriptionError]

\* a caller enters GitDescribe: Once.Do's fast path reads done
Call(p) ==
    /\ OnceOnly
    /\ pc[p] = "idle"
    /\ ncalls[p] < MaxCalls
    /\ pc' = [pc EXCEPT ![p] = IF onceDone THEN "ret" ELSE "doSlow"]
    /\ UNCHANGED <<ncalls, onceDone, onceM, cachedGitDescription,
                   cachedGitDescriptionError, nComputed, returned>>

\* Once.doSlow: take the mutex, then run the function or leave
Lock(p) ==
    /\ OnceOnly
    /\ pc[p] = "doSlow"
    /\ onceM = 0
    /\ onceM' = p
    /\ IF OnceShouldRun(onceDone)
       THEN /\ pc' = [pc EXCEPT ![p] = "open"]
            /\ nComputed' = nComputed + 1
       ELSE /\ pc' = [pc EXCEPT ![p] = "unlock"]
            /\ UNCHANGED nComputed
    /\ UNCHANGED <<ncalls, onceDone, cachedGitDescription,
                   cachedGitDescriptionError, returned>>

\* git.PlainOpen("."), git.go:32-36
Open(p) ==
    /\ OnceOnly
    /\ pc[p] = "open"
    /\ \E ok \in BOOLEAN :
          IF ok
          THEN /\ pc' = [pc EXCEPT ![p] = "head"]
               /\ UNCHANGED cachedGitDescriptionError
          ELSE /\ pc' = [pc EXCEPT ![p] = "unlock"]
               /\ cachedGitDescriptionError' = "repository does not exist"
    /\ UNCHANGED <<ncalls, onceDone, onceM, cachedGitDescription, nComputed, returned>>

\* repo.Head(), git.go:39-43
GetHead(p) ==
    /\ OnceOnly
    /\ pc[p] = "head"
    /\ \E ok \in BOOLEAN :
          IF ok
          THEN /\ pc' = [pc EXCEPT ![p] = "describe"]
               /\ UNCHANGED cachedGitDescriptionError
          ELSE /\ pc' = [pc EXCEPT ![p] = "unlock"]
               /\ cachedGitDescriptionError' = "reference not found"
    /\ UNCHANGED <<ncalls, onceDone, onceM, cachedGitDescription, nComputed, returned>>

\* describe(repo, head) on whatever repository is on disk, git.go:45-46
Describe(p) ==
    /\ OnceOnly
    /\ pc[p] = "describe"
    /\ \E o \in DescribeOutcomes :
          /\ cachedGitDescription' = o.gd
          /\ cachedGitDescriptionError' = o.err
    /\ pc' = [pc EXCEPT ![p] = "unlock"]
    /\ UNCHANGED <<ncalls, onceDone, onceM, nComputed, returned>>

\* the deferred o.done.Store(1) and o.m.Unlock() of Once.doSlow
Unlock(p) ==
    /\ OnceOnly
    /\ pc[p] = "unlock"
    /\ onceM = p
    /\ onceDone' = TRUE
    /\ onceM' = 0
    /\ pc' = [pc EXCEPT ![p] = "ret"]
    /\ UNCHANGED <<ncalls, cachedGitDescription, cachedGitDescriptionError,
                   nComputed, returned>>

\* return cachedGitDescription, cachedGitDescriptionError
Return(p) ==
    /\ OnceOnly
    /\ pc[p] = "ret"
    /\ returned' = returned \cup {GitDescribeResult}
    /\ ncalls' = [ncalls EXCEPT ![p] = @ + 1]
    /\ pc' = [pc EXCEPT ![p] = "idle"]
    /\ UNCHANGED <<onceDone, onceM, cachedGitDescription,
                   cachedGitDescriptionError, nComputed>>

Init == OnceIdle /\ RepoIdle /\ SemverIdle /\ ListIdle /\ ArchiveIdle

Next ==
    \/ \E p \in Procs : Call(p)
    \/ \E p \in Procs : Lock(p)
    \/ \E p \in Procs : Open(p)
    \/ \E p \in Procs : GetHead(p)
    \/ \E p \in Procs : Describe(p)
    \/ \E p \in Procs : Unlock(p)
    \/ \E p \in Procs : Return(p)

Spec == Init /\ [][Next]_vars

\* C1: the describe computation runs at most once, a call returns only after
\* it has completed, and every call returns the one cached (description,
\* error) pair, a cached error included
C1_DescribeOnce ==
    /\ nComputed <= 1
    /\ Cardinality(returned) <= 1
    /\ \A p \in Procs : pc[p] = "ret" => onceDone /\ nComputed = 1
    /\ returned # {} => returned = {GitDescribeResult} /\ nComputed = 1

\* two callers have returned the cached failure of the single computation
C1_Witness ==
    /\ \A p \in Procs : ncalls[p] >= 1
    /\ \E p \in Procs : ncalls[p] >= 2
    /\ cachedGitDescriptionError # ""
    /\ returned # {}

-----------------------------------------------------------------------------
(* Tag selector and history walker applied to a repository. *)

RepoOnly == UNCHANGED <<onceVars, semverVars, listVars, archiveVars>>

\* getVersionTags(r) is called
GetVersionTagsCall ==
    /\ RepoOnly
    /\ ~tagsRes.done /\ ~gdRes.done
    /\ \E f \in {"none", "tags"} :
          LET res == getVersionTags(repo, f)
          IN  tagsRes' = [NoRes EXCEPT !.done = TRUE, !.fault = f,
                                       !.tags = res.tags, !.err = res.err]
    /\ UNCHANGED <<repo, gdRes>>

\* describe(r, head) is called
DescribeCall ==
    /\ RepoOnly
    /\ ~tagsRes.done /\ ~gdRes.done
    /\ \E clean \in BOOLEAN, f \in Faults :
          LET res == describe(repo, clean, f)
          IN  gdRes' = [NoRes EXCEPT !.done = TRUE, !.fault = f,
                                     !.gd = res.gd, !.err = res.err]
    /\ UNCHANGED <<repo, tagsRes>>

InitRepo ==
    /\ OnceIdle /\ SemverIdle /\ ListIdle /\ ArchiveIdle
    /\ repo \in Repos
    /\ tagsRes = NoRes
    /\ gdRes = NoRes

NextRepo == GetVersionTagsCall \/ DescribeCall

SpecRepo == InitRepo /\ [][NextRepo]_vars

\* positions of the commit log whose commit is a key of the tag mapping
Hits(log, tags) == {i \in 1..Len(log) : log[i] \in Keys(tags)}

\* C2: the walk stops at the first visited commit that is a key of the tag
\* mapping, the distance is the number of untagged commits visited before it
\* (0 for a tagged starting commit), and with no tagged commit the tag is
\* absent and the distance is the number of commits visited
C2_WalkDistance ==
    gdRes.done /\ gdRes.err = "" =>
        LET tags == getVersionTags(repo, "none").tags
            hits == Hits(repo.log, tags)
        IN  IF hits = {}
            THEN ~gdRes.gd.tag.present /\ gdRes.gd.n = Len(repo.log)
            ELSE LET m == CHOOSE i \in hits : \A j \in hits : i <= j
                 IN  /\ gdRes.gd.tag = tags[repo.log[m]]
                     /\ gdRes.gd.n = m - 1
                     /\ gdRes.gd.n =
                          Cardinality({i \in 1..(m - 1) : repo.log[i] \notin Keys(tags)})
                     /\ (repo.log[1] \in Keys(tags) => gdRes.gd.n = 0)

\* HEAD is two commits past an annotated semver tag
C2_Witness ==
    /\ gdRes.done /\ gdRes.err = ""
    /\ gdRes.gd.tag.present
    /\ gdRes.gd.tag.Name = N_v123
    /\ gdRes.gd.n = 2

\* the reference is an annotated tag
IsAnnotated(ref) == ref.obj = "tag"

\* targets of the annotated tags whose name minus its first byte parses
AnnotatedSemverTargets(r) ==
    {r.refs[i].target : i \in {j \in 1..Len(r.refs) :
        /\ IsAnnotated(r.refs[j])
        /\ Len(r.refs[j].name) > 0
        /\ Parse(SliceFrom(r.refs[j].name, 1)).ok}}

\* C6: the keys of the mapping getVersionTags returns are exactly the targets
\* of the annotated tags with a semver name; names that do not parse add no
\* entry and raise no error; an annotated v1.2.3 is always a key
C6_TagKeysExact ==
    tagsRes.done /\ tagsRes.fault = "none" =>
        /\ Keys(tagsRes.tags) = AnnotatedSemverTargets(repo)
        /\ (\A i \in 1..Len(repo.refs) : repo.refs[i].name \notin SemverNames)
              => tagsRes.err = "" /\ Keys(tagsRes.tags) = {}
        /\ \A i \in 1..Len(repo.refs) :
              repo.refs[i].name = N_v123 /\ IsAnnotated(repo.refs[i])
                  => repo.refs[i].target \in Keys(tagsRes.tags)

\* C7: a lightweight tag is left out: describing the repository gives what
\* describing it without its lightweight tags gives
C7_LightweightSkipped ==
    gdRes.done /\ gdRes.fault = "none" =>
        LET bare == [repo EXCEPT !.refs = SelectSeq(repo.refs, IsAnnotated)]
            want == describe(bare, gdRes.gd.isClean, gdRes.fault)
        IN  gdRes.gd = want.gd /\ gdRes.err = want.err

-----------------------------------------------------------------------------
(* Semver synthesizer applied to builds at several distances from one tag. *)

SemverOnly == UNCHANGED <<onceVars, repoVars, listVars, archiveVars>>

\* the description of a build k commits past svTag
GdAt(k) == [present |-> TRUE, isClean |-> TRUE, tag |-> svTag, n |-> k]

\* gd.GetSemver() is called on a build at distance k
GetSemverCall ==
    /\ SemverOnly
    /\ Cardinality(svOut) < MaxBuilds
    /\ \E k \in 0..MaxDist : svOut' = svOut \cup {[n |-> k, res |-> GetSemver(GdAt(k))]}
    /\ UNCHANGED svTag

InitSemver ==
    /\ OnceIdle /\ RepoIdle /\ ListIdle /\ ArchiveIdle
    /\ svTag \in {NilTag} \cup
                 {[present |-> TRUE, Name |-> nm, Target |-> 1] : nm \in SemverNames}
    /\ svOut = {}

NextSemver == GetSemverCall

SpecSemver == InitSemver /\ [][NextSemver]_vars

C4_Monotonic ==
    svTag.present =>
        \A r1, r2 \in svOut :
            0 < r1.n /\ r1.n < r2.n => Compare(r1.res.v, r2.res.v) = -1

\* the same two builds compare in distance order once each version has been
\* printed with Version.String and parsed again with semver.Parse
ReparsedMonotonic ==
    svTag.present =>
        \A r1, r2 \in svOut :
            0 < r1.n /\ r1.n < r2.n =>
                LET a == Parse(VersionString(r1.res.v))
                    b == Parse(VersionString(r2.res.v))
                IN  a.ok /\ b.ok /\ Compare(a.v, b.v) = -1

\* printing and parsing again gives back the version the tag name parsed to
StringRoundTrip ==
    svTag.present =>
        LET v == Parse(SliceFrom(svTag.Name, 1)).v
        IN  Parse(VersionString(v)) = [ok |-> TRUE, v |-> v]

-----------------------------------------------------------------------------
(* Tree lister applied to a tag's tree. *)

ListOnly == UNCHANGED <<onceVars, repoVars, semverVars, archiveVars>>

\* gd.ListEntries() is called; the walker may fail at any call of Next
ListEntriesCall ==
    /\ ListOnly
    /\ ~lsOut.done
    /\ \E k \in 0..Len(TreeWalk(lsIn.tree)) :
          lsOut' = [done |-> TRUE, failAt |-> k,
                    entries |-> ListEntries(lsIn.tag, lsIn.treeOk, lsIn.tree, k)]
    /\ UNCHANGED lsIn

InitList ==
    /\ OnceIdle /\ RepoIdle /\ SemverIdle /\ ArchiveIdle
    /\ lsIn \in [tag : {NilTag, [present |-> TRUE, Name |-> N_v123, Target |-> 1]},
                 treeOk : BOOLEAN,
                 tree : Trees]
    /\ lsOut = [done |-> FALSE, failAt |-> 0, entries |-> <<>>]

NextList == ListEntriesCall

SpecList == InitList /\ [][NextList]_vars

\* C10: ListEntries returns the complete depth-first list of the tree's
\* paths or nothing, never a non-empty strict prefix
C10_AllOrNothing ==
    lsOut.done => lsOut.entries = <<>> \/ lsOut.entries = TreeWalk(lsIn.tree)

-----------------------------------------------------------------------------
(* Archive builder run in a process whose description is already cached. *)

ArchiveOnly == UNCHANGED <<onceVars, repoVars, semverVars, lsOut>>

\* every pair the once-function of GitDescribe can leave in the cache
GitDescribeOutcomes ==
    DescribeOutcomes \cup
    {[gd |-> NilGd, err |-> e] : e \in {"repository does not exist", "reference not found"}}

\* the tree of the tag: a.txt, dir/, dir/b.txt, link
ArchiveTree == <<Blob("a.txt"), SubTree("dir", 1), Blob("link")>>

Prefixes == {<<"proj-1.0">>, <<>>}

ExtraFiles == {<<>>, <<P_extra>>}

\* NewGitArchive(prefix) is called; GitDescribe returns the cached pair
NewGitArchiveCall ==
    /\ ArchiveOnly
    /\ ~ga.called
    /\ \E prefix \in Prefixes :
          ga' = NewGitArchive(prefix, GitDescribeResult.gd, GitDescribeResult.err)
    /\ UNCHANGED <<fs, lsIn, arPc, arFormat, arTodo, arErr, writers, closeLog, sink>>

\* ga.Create(format, w, extraFiles...) is entered: the writers are
\* constructed and the entry list is built, lines 45-63 and 73-76
CreateCall ==
    /\ ArchiveOnly
    /\ ga.present
    /\ arPc = "idle"
    /\ \E format \in {"tgz", "zip", "other"}, extra \in ExtraFiles,
          k \in 0..Len(TreeWalk(lsIn.tree)) :
          /\ arFormat' = format
          /\ IF format = "other"
             THEN /\ arPc' = "done"
                  /\ UNCHANGED <<arTodo, writers>>
             ELSE /\ arPc' = "loop"
                  /\ arTodo' = ListEntries(ga.gd.tag, lsIn.treeOk, lsIn.tree, k) \o extra
                  /\ writers' = IF format = "tgz"
                                THEN [NoWriters EXCEPT !.gzip = "open", !.tar = "open"]
                                ELSE [NoWriters EXCEPT !.zip = "open"]
    /\ UNCHANGED <<fs, lsIn, ga, arErr, closeLog, sink>>

\* one iteration of the entry loop: the entry is added, or its error is
\* wrapped and returned
AddEntry ==
    /\ ArchiveOnly
    /\ arPc = "loop"
    /\ arTodo # <<>>
    /\ \E wok \in BOOLEAN :
          LET entry == Head(arTodo)
              r     == IF arFormat = "tgz"
                       THEN addEntryToTar(ga.prefix, entry, fs, wok)
                       ELSE addEntryToZip(ga.prefix, entry, fs, wok)
          IN  IF r.err = NoErr
              THEN /\ sink' = Append(sink, r.entry)
                   /\ arTodo' = Tail(arTodo)
                   /\ UNCHANGED <<arPc, arErr>>
              ELSE /\ arErr' = [msg |-> "while adding file to archive", arg |-> entry]
                   /\ arPc' = "return"
                   /\ UNCHANGED <<sink, arTodo>>
    /\ UNCHANGED <<fs, lsIn, ga, arFormat, writers, closeLog>>

\* the loop is over: createTgzArchive returns nil, createZipArchive returns
\* zipWriter.Close()
LoopDone ==
    /\ ArchiveOnly
    /\ arPc = "loop"
    /\ arTodo = <<>>
    /\ IF arFormat = "zip"
       THEN /\ writers' = [writers EXCEPT !.zip = "closed"]
            /\ closeLog' = Append(closeLog, "zip")
       ELSE UNCHANGED <<writers, closeLog>>
    /\ arPc' = "return"
    /\ UNCHANGED <<fs, lsIn, ga, arFormat, arTodo, arErr, sink>>

\* the function returns: the deferred calls run, last deferred first
ReturnCreate ==
    /\ ArchiveOnly
    /\ arPc = "return"
    /\ IF arFormat = "tgz"
       THEN /\ writers' = [writers EXCEPT !.tar = "closed", !.gzip = "closed"]
            /\ closeLog' = closeLog \o <<"tar", "gzip">>
       ELSE UNCHANGED <<writers, closeLog>>
    /\ arPc' = "done"
    /\ UNCHANGED <<fs, lsIn, ga, arFormat, arTodo, arErr, sink>>

InitArchive ==
    /\ RepoIdle /\ SemverIdle
    /\ pc = [p \in Procs |-> "idle"]
    /\ ncalls = [p \in Procs |-> 0]
    /\ onceDone = TRUE
    /\ onceM = 0
    /\ nComputed = 1
    /\ returned = {}
    /\ \E o \in GitDescribeOutcomes :
          /\ cachedGitDescription = o.gd
          /\ cachedGitDescriptionError = o.err
    /\ lsIn \in [tag : {cachedGitDescription.tag}, treeOk : BOOLEAN, tree : {ArchiveTree}]
    /\ lsOut = [done |-> FALSE, failAt |-> 0, entries |-> <<>>]
    /\ fs \in FileSystems
    /\ ga = NilGa
    /\ arPc = "idle"
    /\ arFormat = "none"
    /\ arTodo = <<>>
    /\ arErr = NoErr
    /\ writers = NoWriters
    /\ closeLog = <<>>
    /\ sink = <<>>

NextArchive ==
    \/ NewGitArchiveCall
    \/ CreateCall
    \/ AddEntry
    \/ LoopDone
    \/ ReturnCreate

SpecArchive == InitArchive /\ [][NextArchive]_vars

\* C5: NewGitArchive returns a GitArchive exactly when GitDescribe succeeded
\* with a tag at distance 0; an absent tag gives "no tag found", a distance
\* above 0 gives "tag <name> must also be HEAD"; Create runs, and entries are
\* written, only for a description with a tag at distance 0
C5_ArchiveOnlyAtTag ==
    LET gd  == cachedGitDescription
        err == cachedGitDescriptionError
    IN  /\ ga.called =>
              (ga.present <=> (err = "" /\ gd.tag.present /\ gd.n = 0))
        /\ ga.called /\ err = "" /\ ~gd.tag.present =>
              ga.err.msg = "no tag found to create archive from"
        /\ ga.called /\ err = "" /\ gd.tag.present /\ gd.n > 0 =>
              ga.err = [msg |-> "tag %s must also be HEAD", arg |-> gd.tag.Name]
        /\ arPc # "idle" \/ sink # <<>> \/ writers # NoWriters =>
              ga.present /\ err = "" /\ gd.tag.present /\ gd.n = 0

\* NewGitArchive was refused for a HEAD two commits past its tag
C5_Witness ==
    /\ ga.called /\ ~ga.present
    /\ cachedGitDescription.tag.present
    /\ cachedGitDescription.n = 2
    /\ ga.err.msg = "tag %s must also be HEAD"
    /\ sink = <<>>

\* C8: an input path that is a symbolic link is written as a link: in tar a
\* symlink header carrying the target and no body, in zip an entry whose body
\* is the target
C8_SymlinksPreserved ==
    \A i \in 1..Len(sink) : \A path \in FsPaths :
        Lstat(fs, path).kind = "symlink" /\ sink[i].Name = EntryName(ga.prefix, path, FALSE) =>
            IF arFormat = "tgz"
            THEN /\ sink[i].Type = "symlink"
                 /\ sink[i].Linkname = Lstat(fs, path).data
                 /\ sink[i].Body = <<>>
            ELSE sink[i].Body = Lstat(fs, path).data

\* C9: when Create has returned, every writer that was opened is closed, the
\* format writer before the compression writer
C9_CloseDiscipline ==
    arPc = "done" =>
        /\ \A w \in {"gzip", "tar", "zip"} : writers[w] # "open"
        /\ arFormat = "tgz" => closeLog = <<"tar", "gzip">>
        /\ arFormat = "zip" => closeLog = <<"zip">>

====
